---- MODULE Spec2Model ----
(***************************************************************************)
(* FM-index of fmindex.py: suffix array, BWT, count table, backward search *)
(* (get_range / find / contains_substring), prefix-overlap discovery and   *)
(* read reconstruction.  Rows and offsets are 0-based as in the source;    *)
(* TLA+ sequences are 1-based, so element k of a Python list is seq[k+1].  *)
(***************************************************************************)
EXTENDS Integers, Sequences, FiniteSets, TLC

\* ---------------------------------------------------------------- bounds
MaxTextLen == 4
MaxPatLen == 3
MaxMinOverlap == 3

\* ---------------------------------------------------------------- symbols
Sentinel == "$"

\* code points of the characters used (Python compares str by code point)
Ord == [c \in {"$", "A", "B", "C", "G", "T"} |->
          CASE c = "$" -> 36 [] c = "A" -> 65 [] c = "B" -> 66
            [] c = "C" -> 67 [] c = "G" -> 71 [] c = "T" -> 84]

TextAlphabet == {"$", "A", "B"}
PatAlphabet == {"$", "A", "B"}

SeqsUpTo(S, n) == UNION {[1..k -> S] : k \in 0..n}

\* the overlap scenario: two reads joined by sentinels, and the query
ExampleText == <<"A","C","G","T","A","C","G","A","$","T","A","C","G","A","G","G","$">>
ExamplePattern == <<"A","C","G","T","A","C","G","A">>

Texts == SeqsUpTo(TextAlphabet, MaxTextLen) \cup {ExampleText}
Patterns == SeqsUpTo(PatAlphabet, MaxPatLen) \cup {ExamplePattern}

\* ---------------------------------------------------------------- Python helpers
Min(a, b) == IF a < b THEN a ELSE b

\* seq[k] of a Python list, k >= -len(seq): negative k counts from the end
PyIndex(seq, k) == IF k < 0 THEN seq[Len(seq) + k + 1] ELSE seq[k + 1]

\* seq[a:b] of a Python list for a, b >= 0: bounds are clamped, never raise
PySlice(seq, a, b) ==
  LET lo == Min(a, Len(seq))
      hi == Min(b, Len(seq))
  IN IF lo >= hi THEN <<>> ELSE SubSeq(seq, lo + 1, hi)

\* reversed(p)
Reversed(p) == [k \in 1..Len(p) |-> p[Len(p) + 1 - k]]

RangeOf(seq) == {seq[k] : k \in 1..Len(seq)}

\* Counter(letters)[c]
CountOf(c, letters) == Cardinality({k \in 1..Len(letters) : letters[k] = c})

\* s < t for Python strings: symbol-wise by code point, a proper prefix is less
RECURSIVE StrLess(_, _)
StrLess(s, t) ==
  IF t = <<>> THEN FALSE
  ELSE IF s = <<>> THEN TRUE
  ELSE IF Ord[Head(s)] < Ord[Head(t)] THEN TRUE
  ELSE IF Ord[Head(s)] > Ord[Head(t)] THEN FALSE
  ELSE StrLess(Tail(s), Tail(t))

\* sorted(keys) of a set of characters, as a sequence
RECURSIVE SortedChars(_)
SortedChars(S) ==
  IF S = {} THEN <<>>
  ELSE LET lo == CHOOSE c \in S : \A d \in S : Ord[c] <= Ord[d]
       IN <<lo>> \o SortedChars(S \ {lo})

\* ---------------------------------------------------------------- construction
\* the loop of n_less_than over the sorted (key, value) items
RECURSIVE n_less_than_loop(_, _, _, _)
n_less_than_loop(items, letters, lower_char_count, n_occurring_lower_letters) ==
  IF items = <<>> THEN n_occurring_lower_letters
  ELSE LET key == Head(items)
           value == CountOf(key, letters)
       IN n_less_than_loop(Tail(items), letters, lower_char_count + value,
                           [c \in DOMAIN n_occurring_lower_letters \cup {key} |->
                              IF c = key THEN lower_char_count
                              ELSE n_occurring_lower_letters[c]])

n_less_than_inclusive(letters) ==
  [c \in RangeOf(letters) |->
     Cardinality({k \in 1..Len(letters) : Ord[letters[k]] <= Ord[c]})]

n_less_than(letters) ==
  n_less_than_loop(SortedChars(RangeOf(letters)), letters, 0, [c \in {} |-> 0])

\* text[x:]
Suffix(t, x) == PySlice(t, x, Len(t))

\* sorted(range(len(text)), key=lambda x: text[x:]); the keys are pairwise
\* distinct (different lengths), so the order is the strict suffix order
create_suffix_array_naive(t) ==
  [r \in 1..Len(t) |->
     CHOOSE x \in 0..(Len(t) - 1) :
       Cardinality({y \in 0..(Len(t) - 1) : StrLess(Suffix(t, y), Suffix(t, x))}) = r - 1]

\* [self.text[i - 1] for i in self.suffix_array]
bwt_of(t, sa) == [r \in 1..Len(sa) |-> PyIndex(t, sa[r] - 1)]

\* ---------------------------------------------------------------- state
VARIABLES
  pc,             \* "new", "idle", a running method, "done" or "error"
  text, suffix_array, bwt, occ_lex_lower,   \* fields of FMIndex
  op,             \* the public method being served
  p,              \* its pattern argument
  rs,             \* what the iterator reversed(p) has not yet yielded
  start, end,     \* the search range (inclusive)
  min_overlap_len, chars_into_p, all_overlaps,   \* locals of get_prefix_overlaps
  row, chars,     \* locals of get_nth_read
  result          \* the value returned to the caller

vars == <<pc, text, suffix_array, bwt, occ_lex_lower, op, p, rs, start, end,
          min_overlap_len, chars_into_p, all_overlaps, row, chars, result>>

index == <<text, suffix_array, bwt, occ_lex_lower>>
range_locals == <<rs, start, end>>
overlap_locals == <<min_overlap_len, chars_into_p, all_overlaps>>
nth_locals == <<row, chars>>

Init ==
  /\ pc = "new"
  /\ text = <<>> /\ suffix_array = <<>> /\ bwt = <<>>
  /\ occ_lex_lower = [c \in {} |-> 0]
  /\ op = "none" /\ p = <<>> /\ rs = <<>>
  /\ start = 0 /\ end = 0
  /\ min_overlap_len = 0 /\ chars_into_p = 0 /\ all_overlaps = <<>>
  /\ row = 0 /\ chars = <<>>
  /\ result = <<>>

\* FMIndex.__init__: no check of the text is made
FMIndex_init ==
  /\ pc = "new"
  /\ \E t \in Texts :
       /\ text' = t
       /\ suffix_array' = create_suffix_array_naive(t)
       /\ bwt' = bwt_of(t, create_suffix_array_naive(t))
       /\ occ_lex_lower' = n_less_than(bwt_of(t, create_suffix_array_naive(t)))
  /\ pc' = "idle"
  /\ UNCHANGED <<op, p, range_locals, overlap_locals, nth_locals, result>>

\* ---------------------------------------------------------------- rank
\* TRank.rank_at_row(c, i): occurrences of c in bwt[0..i] inclusive, 0 for i < 0
rank_at_row(c, i) ==
  IF i < 0 THEN 0
  ELSE Cardinality({k \in 1..Len(bwt) : k <= i + 1 /\ bwt[k] = c})

\* a row past the last one is a fatal error of the rank structure
rank_raises(i) == i >= Len(bwt)

\* ---------------------------------------------------------------- backward search
backtrace_step(c, s, e) ==
  IF c \notin DOMAIN occ_lex_lower
    THEN [raised |-> FALSE, start |-> e + 1, end |-> e]
  ELSE IF rank_raises(s - 1) \/ rank_raises(e)
    THEN [raised |-> TRUE, start |-> s, end |-> e]
  ELSE [raised |-> FALSE,
        start |-> rank_at_row(c, s - 1) + occ_lex_lower[c] + 1,
        end |-> rank_at_row(c, e) + occ_lex_lower[c]]

\* get_range(p), also as called by find and contains_substring: lines 51-53
range_call(name) ==
  /\ pc = "idle"
  /\ \E pat \in Patterns :
       /\ p' = pat
       /\ rs' = Reversed(pat)
       /\ pc' = IF pat = <<>> THEN "get_range_ret" ELSE "get_range"
  /\ op' = name
  /\ start' = 0
  /\ end' = Len(text) - 1
  /\ UNCHANGED <<index, overlap_locals, nth_locals, result>>

get_range_call == range_call("get_range")
find_call == range_call("find")
contains_substring_call == range_call("contains_substring")

\* one iteration of the loop of get_range, without the early exit
get_range_step_nobreak ==
  /\ pc = "get_range"
  /\ LET bt == backtrace_step(Head(rs), start, end)
     IN IF bt.raised
          THEN pc' = "error" /\ UNCHANGED range_locals
          ELSE /\ start' = bt.start
               /\ end' = bt.end
               /\ rs' = Tail(rs)
               /\ pc' = IF Tail(rs) = <<>> THEN "get_range_ret" ELSE "get_range"
  /\ UNCHANGED <<index, op, p, overlap_locals, nth_locals, result>>

\* one iteration of the loop of get_range: lines 54-57
get_range_step ==
  /\ pc = "get_range"
  /\ LET bt == backtrace_step(Head(rs), start, end)
     IN IF bt.raised
          THEN pc' = "error" /\ UNCHANGED range_locals
          ELSE /\ start' = bt.start
               /\ end' = bt.end
               /\ rs' = Tail(rs)
               /\ pc' = IF bt.start > bt.end \/ Tail(rs) = <<>>
                          THEN "get_range_ret" ELSE "get_range"
  /\ UNCHANGED <<index, op, p, overlap_locals, nth_locals, result>>

\* return start, end + 1
get_range_return ==
  /\ pc = "get_range_ret" /\ op = "get_range"
  /\ result' = <<start, end + 1>>
  /\ pc' = "done"
  /\ UNCHANGED <<index, op, p, range_locals, overlap_locals, nth_locals>>

\* find: lines 42-46
find_return ==
  /\ pc = "get_range_ret" /\ op = "find"
  /\ result' = IF start < end + 1 THEN PySlice(suffix_array, start, end + 1) ELSE <<>>
  /\ pc' = "done"
  /\ UNCHANGED <<index, op, p, range_locals, overlap_locals, nth_locals>>

\* contains_substring: lines 72-73
contains_substring_return ==
  /\ pc = "get_range_ret" /\ op = "contains_substring"
  /\ result' = (start < end + 1)
  /\ pc' = "done"
  /\ UNCHANGED <<index, op, p, range_locals, overlap_locals, nth_locals>>

SearchNext ==
  \/ get_range_call \/ find_call \/ contains_substring_call
  \/ get_range_step
  \/ get_range_return \/ find_return \/ contains_substring_return

\* get_range(q) as a whole: the range held when the loop over rs is left
RECURSIVE get_range_loop(_, _, _)
get_range_loop(remaining, s, e) ==
  IF remaining = <<>> THEN [raised |-> FALSE, start |-> s, end |-> e]
  ELSE LET bt == backtrace_step(Head(remaining), s, e)
       IN IF bt.raised \/ bt.start > bt.end THEN bt
          ELSE get_range_loop(Tail(remaining), bt.start, bt.end)

get_range(q) ==
  LET r == get_range_loop(Reversed(q), 0, Len(text) - 1)
  IN [raised |-> r.raised, start |-> r.start, end |-> r.end + 1]

\* ---------------------------------------------------------------- reads
\* first loop of get_read_at_offset: the symbols before offset, nearest first,
\* up to the previous separator
RECURSIVE before_loop(_, _)
before_loop(offset, i) ==
  IF i > offset THEN <<>>
  ELSE IF PyIndex(text, offset - i) = Sentinel THEN <<>>
  ELSE <<PyIndex(text, offset - i)>> \o before_loop(offset, i + 1)

\* second loop of get_read_at_offset: the symbols from offset up to the next separator
RECURSIVE after_loop(_, _)
after_loop(offset, i) ==
  IF i >= Len(text) - offset THEN <<>>
  ELSE IF PyIndex(text, offset + i) = Sentinel THEN <<>>
  ELSE <<PyIndex(text, offset + i)>> \o after_loop(offset, i + 1)

get_read_at_offset(offset) ==
  Reversed(before_loop(offset, 1)) \o after_loop(offset, 0)

\* offsets of the rows start..end whose suffix is directly preceded by '$'
elements_preceeded_by_sep(s, e) ==
  LET indices == PySlice(suffix_array, s, e + 1)
      preceded(i) == PyIndex(text, i - 1) = Sentinel
  IN SelectSeq(indices, preceded)

\* ---------------------------------------------------------------- overlaps
\* lines 79-83
get_prefix_overlaps_call ==
  /\ pc = "idle"
  /\ \E pat \in Patterns, m \in 1..MaxMinOverlap :
       /\ p' = pat
       /\ rs' = Reversed(pat)
       /\ min_overlap_len' = m
       /\ pc' = IF pat = <<>> THEN "get_prefix_overlaps_ret" ELSE "get_prefix_overlaps"
  /\ op' = "get_prefix_overlaps"
  /\ start' = 0
  /\ end' = Len(text) - 1
  /\ chars_into_p' = 0
  /\ all_overlaps' = <<>>
  /\ UNCHANGED <<index, nth_locals, result>>

overlap_window_closed(m, k, plen) == m <= k /\ k <= plen

\* min_overlap_len <= chars_into_p < len(p)
overlap_window(m, k, plen) == m <= k /\ k < plen

\* one iteration of the loop of get_prefix_overlaps: lines 84-94
get_prefix_overlaps_step ==
  /\ pc = "get_prefix_overlaps"
  /\ LET bt == backtrace_step(Head(rs), start, end)
         k == chars_into_p + 1
         overlaps == elements_preceeded_by_sep(bt.start, bt.end)
     IN IF bt.raised
          THEN /\ pc' = "error"
               /\ UNCHANGED <<range_locals, chars_into_p, all_overlaps>>
          ELSE /\ start' = bt.start
               /\ end' = bt.end
               /\ rs' = Tail(rs)
               /\ chars_into_p' = k
               /\ IF bt.start > bt.end
                    THEN /\ pc' = "get_prefix_overlaps_ret"
                         /\ UNCHANGED all_overlaps
                    ELSE /\ pc' = IF Tail(rs) = <<>> THEN "get_prefix_overlaps_ret"
                                  ELSE "get_prefix_overlaps"
                         /\ all_overlaps' =
                              IF overlap_window(min_overlap_len, k, Len(p))
                                THEN all_overlaps \o
                                     [j \in 1..Len(overlaps) |->
                                        <<get_read_at_offset(overlaps[j]), k>>]
                                ELSE all_overlaps
  /\ UNCHANGED <<index, op, p, min_overlap_len, nth_locals, result>>

\* return all_overlaps
get_prefix_overlaps_return ==
  /\ pc = "get_prefix_overlaps_ret"
  /\ result' = all_overlaps
  /\ pc' = "done"
  /\ UNCHANGED <<index, op, p, range_locals, overlap_locals, nth_locals>>

OverlapNext ==
  \/ get_prefix_overlaps_call \/ get_prefix_overlaps_step \/ get_prefix_overlaps_return

\* ---------------------------------------------------------------- get_nth_read
\* lines 122-125, for a row n of the index
get_nth_read_call ==
  /\ pc = "idle"
  /\ op' = "get_nth_read"
  /\ \E n \in 0..(Len(text) - 1) :
       /\ row' = n
       /\ chars' = <<PyIndex(bwt, n)>>
  /\ pc' = "get_nth_read"
  /\ UNCHANGED <<index, p, range_locals, overlap_locals, result>>

\* bw_c, the symbol appended last
bw_c == chars[Len(chars)]

\* one iteration of the while loop: lines 126-129.  A walk that has made more
\* steps than there are rows has repeated a row and is not followed further.
get_nth_read_step ==
  /\ pc = "get_nth_read"
  /\ bw_c # Sentinel
  /\ Len(chars) <= Len(text)
  /\ LET next_row == rank_at_row(bw_c, row - 1) + occ_lex_lower[bw_c] + 1
     IN IF rank_raises(row - 1) \/ next_row >= Len(bwt)
          THEN pc' = "error" /\ UNCHANGED nth_locals
          ELSE /\ row' = next_row
               /\ chars' = Append(chars, PyIndex(bwt, next_row))
               /\ pc' = "get_nth_read"
  /\ UNCHANGED <<index, op, p, range_locals, overlap_locals, result>>

\* return ''.join(reversed(chars))[1:]
get_nth_read_return ==
  /\ pc = "get_nth_read"
  /\ bw_c = Sentinel
  /\ result' = PySlice(Reversed(chars), 1, Len(chars))
  /\ pc' = "done"
  /\ UNCHANGED <<index, op, p, range_locals, overlap_locals, nth_locals>>

NthReadNext == get_nth_read_call \/ get_nth_read_step \/ get_nth_read_return

Next == FMIndex_init \/ SearchNext \/ OverlapNext \/ NthReadNext

Spec == Init /\ [][Next]_vars

\* ================================================================ properties
SentinelTerminated(t) == t # <<>> /\ t[Len(t)] = Sentinel

\* all offsets i with T[i:i+len(q)] == q
Occurrences(t, q) ==
  {i \in 0..(Len(t) - 1) : PySlice(t, i, i + Len(q)) = q}

RangeOps == {"get_range", "find", "contains_substring"}

Built == pc # "new"

\* the value handed back by a finished range query denotes "no match"
ResultEmpty ==
  CASE op = "get_range" -> result[1] >= result[2]
    [] op = "find" -> result = <<>>
    [] op = "contains_substring" -> result = FALSE

\* the reads stored in t: the maximal sentinel-free stretches, each ended by '$'
ReadStarts(t) == {i \in 0..(Len(t) - 1) : PyIndex(t, i - 1) = Sentinel}
ReadFrom(t, i) ==
  LET stop == CHOOSE j \in i..(Len(t) - 1) :
                 /\ t[j + 1] = Sentinel
                 /\ \A k \in i..(j - 1) : t[k + 1] # Sentinel
  IN PySlice(t, i, stop)
Reads(t) == {ReadFrom(t, i) : i \in ReadStarts(t)}

\* the pairs (r, k): m <= k < len(q) and the last k symbols of q open read r
ExpectedOverlaps(t, q, m) ==
  {<<r, k>> : r \in Reads(t), k \in 1..Len(q)} \cap
  {x \in Reads(t) \X (1..Len(q)) :
     /\ m <= x[2] /\ x[2] < Len(q) /\ x[2] <= Len(x[1])
     /\ PySlice(q, Len(q) - x[2], Len(q)) = PySlice(x[1], 0, x[2])}

\* C1: on a sentinel-terminated text, find(p) for a non-empty p returns exactly
\* the offsets i with T[i:i+len(p)] == p, and does not fail.
C1_FindReturnsAllOccurrences ==
  (pc \in {"done", "error"} /\ op = "find" /\ SentinelTerminated(text) /\ p # <<>>)
    => (pc = "done" /\ RangeOf(result) = Occurrences(text, p))

\* C2: on a sentinel-terminated text, contains_substring(p) is true exactly
\* when p occurs in the text.
C2_ContainsIffOccurs ==
  (pc \in {"done", "error"} /\ op = "contains_substring"
     /\ SentinelTerminated(text) /\ p # <<>>)
    => (pc = "done" /\ (result = (Occurrences(text, p) # {})))

\* C3: on a text of '$'-terminated reads, get_prefix_overlaps(p, m) for a
\* sentinel-free p returns exactly the pairs (r, k) with r a stored read,
\* m <= k < len(p), and the last k symbols of p equal to the first k of r.
C3_OverlapsExact ==
  (pc \in {"done", "error"} /\ op = "get_prefix_overlaps"
     /\ SentinelTerminated(text) /\ Sentinel \notin RangeOf(p))
    => (pc = "done" /\ RangeOf(result) = ExpectedOverlaps(text, p, min_overlap_len))

\* C4: every pair (read, k) collected by get_prefix_overlaps(p, m) has
\* m <= k < len(p).
C4_OverlapLengthInWindow ==
  \A j \in 1..Len(all_overlaps) :
    min_overlap_len <= all_overlaps[j][2] /\ all_overlaps[j][2] < Len(p)

\* C4 witness: a finished get_prefix_overlaps on a sentinel-terminated text that scanned the whole pattern,
\* emitted something earlier, and whose final full-length range still holds a
\* read start that was not emitted.
C4_Witness ==
  /\ pc = "done" /\ op = "get_prefix_overlaps" /\ SentinelTerminated(text)
  /\ rs = <<>> /\ chars_into_p = Len(p) /\ start <= end
  /\ elements_preceeded_by_sep(start, end) # <<>>
  /\ result # <<>>

\* C5: a range query whose pattern holds a symbol absent from the indexed
\* (sentinel-terminated) text ends without error and reports no match.
C5_UnknownSymbolGivesEmptyRange ==
  (pc \in {"done", "error"} /\ op \in RangeOps /\ SentinelTerminated(text)
     /\ RangeOf(p) \ RangeOf(text) # {})
    => (pc = "done" /\ ResultEmpty)

\* C6: an index is only ever built from a non-empty text ending in '$'.
C6_ConstructionRejectsInvalidText == Built => SentinelTerminated(text)

\* C7: if get_range(q) is empty for a non-empty q then get_range(c + q) is
\* empty too: once the range is empty after scanning a non-empty suffix of the
\* pattern, the scan takes no further step, and the query ends, without error,
\* in a no-match result.
C7_EmptyRangeStaysEmpty ==
  /\ (op \in RangeOps /\ Len(rs) < Len(p) /\ start > end)
       => (pc \in {"get_range_ret", "done"} /\ (pc = "done" => ResultEmpty))
  /\ (op \in RangeOps /\ pc \in {"done", "error"} /\ Len(p) >= 2
        /\ ~get_range(Tail(p)).raised
        /\ get_range(Tail(p)).start >= get_range(Tail(p)).end)
       => (pc = "done" /\ ResultEmpty)

\* C7 witness: contains_substring(c + q) has ended early, with symbols of the
\* pattern left unscanned, on the empty range of q, and answers FALSE.
C7_Witness ==
  /\ pc = "done" /\ op = "contains_substring" /\ SentinelTerminated(text)
  /\ rs # <<>> /\ Len(rs) < Len(p) /\ start > end
  /\ result = FALSE

GreatestSymbol == CHOOSE g \in DOMAIN occ_lex_lower :
                    \A c \in DOMAIN occ_lex_lower : Ord[c] <= Ord[g]

RECURSIVE SumOver(_, _)
SumOver(f, S) ==
  IF S = {} THEN 0
  ELSE LET c == CHOOSE x \in S : TRUE IN f[c] + SumOver(f, S \ {c})

\* C8 as stated: the sum of C[c] over all symbols c, plus the frequency of the
\* greatest symbol, equals the text length n.
C8_SumOfCountsPlusGreatest ==
  (Built /\ SentinelTerminated(text))
    => SumOver(occ_lex_lower, DOMAIN occ_lex_lower)
         + CountOf(GreatestSymbol, bwt) = Len(text)

\* C8 amended: the entry C[g] of the greatest symbol g, plus the frequency of
\* g, equals the text length n.
C8_GreatestCountPlusFrequency ==
  (Built /\ text # <<>>)
    => occ_lex_lower[GreatestSymbol] + CountOf(GreatestSymbol, bwt) = Len(text)

\* C8 witness: an index over a sentinel-terminated text with three distinct symbols.
C8_Witness ==
  /\ Built /\ SentinelTerminated(text)
  /\ Cardinality(DOMAIN occ_lex_lower) >= 3

\* C9: on a sentinel-terminated text get_nth_read(r) reaches a row whose BWT
\* symbol is '$': the walk never faults and never makes as many steps as there
\* are rows (a longer walk has repeated a row and repeats it forever).
C9_NthReadReachesSentinel ==
  (op = "get_nth_read" /\ SentinelTerminated(text))
    => (pc # "error" /\ Len(chars) <= Len(text))

\* C10: on a sentinel-terminated text, every non-empty range held between the
\* steps of get_range and get_prefix_overlaps lies within rows 0..n-1, and
\* every rank query of the next backtrace_step has -1 <= i <= n-1.
C10_RangeWithinRows ==
  (SentinelTerminated(text) /\ op \in RangeOps \cup {"get_prefix_overlaps"})
    => /\ pc # "error"
       /\ (Len(rs) < Len(p) /\ start <= end)
            => (0 <= start /\ end <= Len(text) - 1)
       /\ (pc \in {"get_range", "get_prefix_overlaps"}
             /\ Head(rs) \in DOMAIN occ_lex_lower)
            => (-1 <= start - 1 /\ start - 1 <= Len(text) - 1
                /\ -1 <= end /\ end <= Len(text) - 1)
====
